---- MODULE Spec2Model ----
(***************************************************************************)
(* Model of the two scripts of the repository:                             *)
(*   cleanup-script.py : the credential redactor (stdin -> stdout filter)  *)
(*   python-server.py  : the diagnostic HTTP server                        *)
(*                                                                         *)
(* Text is modelled as a sequence of symbols.  A symbol is either one      *)
(* character of a character class the two regular expressions can tell     *)
(* apart, or one of the fixed literals of the script taken as a unit:      *)
(*   "dq" "sq" "bt"  the three quote characters  " ' `                     *)
(*   "URL"           https://piyqnldhdxkmuwqajkhz.supabase.co              *)
(*   "HDR"           eyJhbGciOiJIUzI1NiIsInR5cCI6IkpXVCJ9                  *)
(*   "dot"           .                                                     *)
(*   "b64"           one character of [A-Za-z0-9_-]                        *)
(*   "oth"           one ASCII character of no class above (a space)       *)
(*   "RURL" "RKEY"   REDACTED_SUPABASE_URL, REDACTED_SUPABASE_KEY          *)
(*   "eacute"        U+00E9, whose UTF-8 encoding is the bytes C3 A9       *)
(* At the byte level "xC3" and "xA9" are the two bytes 0xC3 and 0xA9; the  *)
(* ASCII symbols stand for their own bytes.                                *)
(***************************************************************************)
EXTENDS Integers, Sequences, FiniteSets, TLC

VARIABLES
    \* ---- cleanup-script.py
    rpc,            \* position of the script: read, decode, replace, except, write, done
    nread,          \* number of chunks read from standard input so far
    content,        \* bytes read from standard input (line 24)
    content_str,    \* decoded text (line 27)
    modified_content_str,   \* redacted text (line 29)
    stdout,         \* sequence of the byte strings written to standard output
    \* ---- python-server.py
    spc,            \* position of the script: bind, announce, browser, serve, exited
    state,          \* NOT_LISTENING, LISTENING, terminated
    portInUse,      \* environment: the port is already bound by another process
    socketOpen,     \* the listening socket exists
    console,        \* lines printed on standard output
    browser,        \* none, opened, raised
    interrupted,    \* a KeyboardInterrupt ended the process
    bindFailed,     \* the TCPServer constructor raised
    nextId,         \* number of connections made so far
    backlog,        \* connections queued on the listening socket, oldest first
    requests,       \* request id -> [method, path]
    handling,       \* ids of the requests whose handler is running
    wire,           \* request id -> what was sent on that connection
    finished        \* ids of the requests whose connection was shut down

rvars == <<rpc, nread, content, content_str, modified_content_str, stdout>>
svars == <<spc, state, portInUse, socketOpen, console, browser, interrupted,
           bindFailed, nextId, backlog, requests, handling, wire, finished>>
vars == <<rvars, svars>>

(***************************************************************************)
(* Bounds                                                                  *)
(***************************************************************************)
MaxChunks == 4
MaxRequests == 3

(***************************************************************************)
(* cleanup-script.py                                                       *)
(***************************************************************************)
Quotes == {"dq", "sq", "bt"}

\* [A-Za-z0-9_-]: the header and both placeholders are runs of such characters
IsB64(c) == c \in {"b64", "HDR", "RURL", "RKEY"}

TokenBody == <<"HDR", "dot", "b64", "dot", "b64">>

Chunks ==
    { <<"dq">>, <<"sq">>, <<"bt">>, <<"URL">>, TokenBody,
      <<"b64">>, <<"dot">>, <<"oth">>, <<"xC3">>, <<"xA9">>,
      <<"dq", "URL", "dq">> }

Drop(s, n) == SubSeq(s, n + 1, Len(s))

\* length of the longest run of [A-Za-z0-9_-] that starts at s[i]
RECURSIVE B64Run(_, _)
B64Run(s, i) ==
    IF i <= Len(s) /\ IsB64(s[i]) THEN 1 + B64Run(s, i + 1) ELSE 0

\* length of the match of  (["'`])https://piyqnldhdxkmuwqajkhz\.supabase\.co\1
\* at position i, 0 when there is none
UrlMatchLen(s, i) ==
    IF /\ i + 2 <= Len(s)
       /\ s[i] \in Quotes
       /\ s[i + 1] = "URL"
       /\ s[i + 2] = s[i]
    THEN 3 ELSE 0

\* the key pattern without the back-reference: any quote closes the match
KeyMatchLenAnyQuote(s, i) ==
    IF i + 2 <= Len(s) /\ s[i] \in Quotes /\ s[i + 1] = "HDR" /\ s[i + 2] = "dot"
    THEN LET n1 == B64Run(s, i + 3)
             j  == i + 3 + n1
         IN  IF n1 >= 1 /\ j <= Len(s) /\ s[j] = "dot"
             THEN LET n2 == B64Run(s, j + 1)
                      k  == j + 1 + n2
                  IN  IF n2 >= 1 /\ k <= Len(s) /\ s[k] \in Quotes
                      THEN k - i + 1 ELSE 0
             ELSE 0
    ELSE 0

\* length of the match of
\*   (["'`])eyJhbGciOiJIUzI1NiIsInR5cCI6IkpXVCJ9\.[A-Za-z0-9_-]+\.[A-Za-z0-9_-]+\1
\* at position i, 0 when there is none.  The classes of the pattern are
\* disjoint, so the greedy runs are the only candidates.
KeyMatchLen(s, i) ==
    IF i + 2 <= Len(s) /\ s[i] \in Quotes /\ s[i + 1] = "HDR" /\ s[i + 2] = "dot"
    THEN LET n1 == B64Run(s, i + 3)
             j  == i + 3 + n1
         IN  IF n1 >= 1 /\ j <= Len(s) /\ s[j] = "dot"
             THEN LET n2 == B64Run(s, j + 1)
                      k  == j + 1 + n2
                  IN  IF n2 >= 1 /\ k <= Len(s) /\ s[k] = s[i]
                      THEN k - i + 1 ELSE 0
             ELSE 0
    ELSE 0

\* the URL replacement with a literal double quote in place of \1
UrlReplDoubleQuote(q) == <<"dq", "RURL", "dq">>

\* the replacement templates  \1REDACTED_SUPABASE_URL\1  and  \1REDACTED_SUPABASE_KEY\1
UrlRepl(q) == <<q, "RURL", q>>
KeyRepl(q) == <<q, "RKEY", q>>

\* re.sub: leftmost, non-overlapping matches, scanning left to right
RECURSIVE SubUrl(_)
SubUrl(s) ==
    IF s = <<>> THEN <<>>
    ELSE LET n == UrlMatchLen(s, 1)
         IN  IF n > 0 THEN UrlRepl(s[1]) \o SubUrl(Drop(s, n))
             ELSE <<s[1]>> \o SubUrl(Tail(s))

RECURSIVE SubKey(_)
SubKey(s) ==
    IF s = <<>> THEN <<>>
    ELSE LET n == KeyMatchLen(s, 1)
         IN  IF n > 0 THEN KeyRepl(s[1]) \o SubKey(Drop(s, n))
             ELSE <<s[1]>> \o SubKey(Tail(s))

replace_supabase_credentials(s) == SubKey(SubUrl(s))

\* decoding with errors='surrogateescape': no byte sequence is refused
Utf8ValidLenient(b) == TRUE

\* bytes.decode('utf-8') raises UnicodeDecodeError on a lead byte that is not
\* followed by a continuation byte and on a continuation byte with no lead
RECURSIVE Utf8Valid(_)
Utf8Valid(b) ==
    IF b = <<>> THEN TRUE
    ELSE IF b[1] = "xC3" THEN Len(b) >= 2 /\ b[2] = "xA9" /\ Utf8Valid(Drop(b, 2))
    ELSE IF b[1] = "xA9" THEN FALSE
    ELSE Utf8Valid(Tail(b))

RECURSIVE Utf8Decode(_)
Utf8Decode(b) ==
    IF b = <<>> THEN <<>>
    ELSE IF b[1] = "xC3" THEN <<"eacute">> \o Utf8Decode(Drop(b, 2))
    ELSE <<b[1]>> \o Utf8Decode(Tail(b))

RECURSIVE Utf8Encode(_)
Utf8Encode(s) ==
    IF s = <<>> THEN <<>>
    ELSE IF s[1] = "eacute" THEN <<"xC3", "xA9">> \o Utf8Encode(Tail(s))
    ELSE <<s[1]>> \o Utf8Encode(Tail(s))

RInit ==
    /\ rpc = "read"
    /\ nread = 0
    /\ content = <<>>
    /\ content_str = <<>>
    /\ modified_content_str = <<>>
    /\ stdout = <<>>

\* sys.stdin.buffer.read(): bytes arrive until end of file
ReadChunk ==
    /\ rpc = "read"
    /\ nread < MaxChunks
    /\ \E c \in Chunks : content' = content \o c
    /\ nread' = nread + 1
    /\ UNCHANGED <<rpc, content_str, modified_content_str, stdout, svars>>

ReadEOF ==
    /\ rpc = "read"
    /\ rpc' = "decode"
    /\ UNCHANGED <<nread, content, content_str, modified_content_str, stdout, svars>>

DecodeOK ==
    /\ rpc = "decode"
    /\ Utf8Valid(content)
    /\ content_str' = Utf8Decode(content)
    /\ rpc' = "replace"
    /\ UNCHANGED <<nread, content, modified_content_str, stdout, svars>>

DecodeError ==
    /\ rpc = "decode"
    /\ ~Utf8Valid(content)
    /\ rpc' = "except"
    /\ UNCHANGED <<nread, content, content_str, modified_content_str, stdout, svars>>

Replace ==
    /\ rpc = "replace"
    /\ modified_content_str' = replace_supabase_credentials(content_str)
    /\ rpc' = "write"
    /\ UNCHANGED <<nread, content, content_str, stdout, svars>>

WriteText ==
    /\ rpc = "write"
    /\ stdout' = Append(stdout, Utf8Encode(modified_content_str))
    /\ rpc' = "done"
    /\ UNCHANGED <<nread, content, content_str, modified_content_str, svars>>

PassThrough ==
    /\ rpc = "except"
    /\ stdout' = Append(stdout, content)
    /\ rpc' = "done"
    /\ UNCHANGED <<nread, content, content_str, modified_content_str, svars>>

SIdle ==
    /\ spc = "bind"
    /\ state = "NOT_LISTENING"
    /\ portInUse = FALSE
    /\ socketOpen = FALSE
    /\ console = <<>>
    /\ browser = "none"
    /\ interrupted = FALSE
    /\ bindFailed = FALSE
    /\ nextId = 0
    /\ backlog = <<>>
    /\ requests = <<>>
    /\ handling = {}
    /\ wire = <<>>
    /\ finished = {}

RedactorInit == RInit /\ SIdle

RedactorNext ==
    \/ ReadChunk
    \/ ReadEOF
    \/ DecodeOK
    \/ DecodeError
    \/ Replace
    \/ WriteText
    \/ PassThrough

RedactorSpec == RedactorInit /\ [][RedactorNext]_vars

(***************************************************************************)
(* python-server.py                                                        *)
(***************************************************************************)
PORT == 8080
HOST == "0.0.0.0"

Methods == {"GET", "POST"}
Paths == {"/", "/foo/bar"}
\* what date_time_string() can return while the server runs
Times == {"t1", "t2"}

\* the lines 60-65 print
StartupLines ==
    << <<"Server started at http://", HOST, ":", ToString(PORT)>>,
       <<"Try accessing:">>,
       <<"- http://localhost:", ToString(PORT), "/">>,
       <<"- http://127.0.0.1:", ToString(PORT), "/">>,
       <<"- http://192.168.18.20:", ToString(PORT), "/ (your IP)">>,
       <<"Press Ctrl+C to stop the server">> >>

\* the line 76 prints for the exception e
ErrorLine(e) == <<"Error starting server: ", e>>

\* the page of lines 28-54, as the pieces the f-string joins
Page(path, time) ==
    <<"<h1>Server is Running!</h1>",
      "Server: Python ", "sys.version",
      "Host: ", HOST,
      "Port: ", ToString(PORT),
      "Working Directory: ", "os.getcwd()",
      "Request Path: ", path,
      "Server Time: ", time>>

\* the base class's do_GET: the path is looked up in the working directory
do_GET_Files(path, time) ==
    IF path = "/"
    THEN << [kind |-> "status", code |-> 200],
            [kind |-> "header", name |-> "Server", value |-> "SimpleHTTP"],
            [kind |-> "header", name |-> "Date", value |-> time],
            [kind |-> "header", name |-> "Content-type", value |-> "text/html"],
            [kind |-> "end_headers"],
            [kind |-> "body", html |-> <<"Directory listing for ", path>>] >>
    ELSE << [kind |-> "status", code |-> 404],
            [kind |-> "header", name |-> "Server", value |-> "SimpleHTTP"],
            [kind |-> "header", name |-> "Date", value |-> time],
            [kind |-> "end_headers"] >>

\* send_response(200) puts the status line and the Server and Date headers
\* in the header buffer, send_header adds a header, end_headers sends the
\* buffer, wfile.write sends the body
do_GET(path, time) ==
    << [kind |-> "status", code |-> 200],
       [kind |-> "header", name |-> "Server", value |-> "SimpleHTTP"],
       [kind |-> "header", name |-> "Date", value |-> time],
       [kind |-> "header", name |-> "Content-type", value |-> "text/html"],
       [kind |-> "header", name |-> "Access-Control-Allow-Origin", value |-> "*"],
       [kind |-> "end_headers"],
       [kind |-> "body", html |-> Page(path, time)] >>

\* a method with no do_<METHOD> in TestHandler or its base class gets the base
\* class's 501 answer
send_error_501(time) ==
    << [kind |-> "status", code |-> 501],
       [kind |-> "header", name |-> "Server", value |-> "SimpleHTTP"],
       [kind |-> "header", name |-> "Date", value |-> time],
       [kind |-> "end_headers"] >>

\* socketserver.ThreadingTCPServer: a connection is accepted at any time
CanAcceptThreaded == TRUE

\* socketserver.TCPServer handles a request in the thread of serve_forever:
\* the next connection is accepted when no handler runs
CanAccept == handling = {}

SInit ==
    /\ spc = "bind"
    /\ state = "NOT_LISTENING"
    /\ portInUse \in BOOLEAN
    /\ socketOpen = FALSE
    /\ console = <<>>
    /\ browser = "none"
    /\ interrupted = FALSE
    /\ bindFailed = FALSE
    /\ nextId = 0
    /\ backlog = <<>>
    /\ requests = <<>>
    /\ handling = {}
    /\ wire = <<>>
    /\ finished = {}

\* TCPServer((HOST, PORT), TestHandler) binds and listens
BindOK ==
    /\ spc = "bind"
    /\ ~portInUse
    /\ socketOpen' = TRUE
    /\ state' = "LISTENING"
    /\ spc' = "announce"
    /\ UNCHANGED <<portInUse, console, browser, interrupted, bindFailed, nextId,
                   backlog, requests, handling, wire, finished, rvars>>

\* line 75 as  except Exception: pass
BindFailSilent ==
    /\ spc = "bind"
    /\ portInUse
    /\ bindFailed' = TRUE
    /\ state' = "terminated"
    /\ spc' = "exited"
    /\ UNCHANGED <<portInUse, socketOpen, console, browser, interrupted, nextId,
                   backlog, requests, handling, wire, finished, rvars>>

\* the constructor raises OSError; the handler of line 75 prints and the
\* script ends
BindFail ==
    /\ spc = "bind"
    /\ portInUse
    /\ bindFailed' = TRUE
    /\ console' = Append(console, ErrorLine("[Errno 98] Address already in use"))
    /\ state' = "terminated"
    /\ spc' = "exited"
    /\ UNCHANGED <<portInUse, socketOpen, browser, interrupted, nextId,
                   backlog, requests, handling, wire, finished, rvars>>

Announce ==
    /\ spc = "announce"
    /\ console' = console \o StartupLines
    /\ spc' = "browser"
    /\ UNCHANGED <<state, portInUse, socketOpen, browser, interrupted, bindFailed,
                   nextId, backlog, requests, handling, wire, finished, rvars>>

\* webbrowser.open with no try around it: what it raises reaches line 75
BrowserUnguarded ==
    /\ spc = "browser"
    /\ \/ /\ browser' = "opened"
          /\ spc' = "serve"
          /\ UNCHANGED <<state, socketOpen, console>>
       \/ /\ browser' = "raised"
          /\ console' = Append(console, ErrorLine("could not locate runnable browser"))
          /\ socketOpen' = FALSE
          /\ state' = "terminated"
          /\ spc' = "exited"
    /\ UNCHANGED <<portInUse, interrupted, bindFailed, nextId, backlog, requests,
                   handling, wire, finished, rvars>>

\* webbrowser.open inside try / except: pass -- whatever it raises is dropped
Browser ==
    /\ spc = "browser"
    /\ \E outcome \in {"opened", "raised"} : browser' = outcome
    /\ spc' = "serve"
    /\ UNCHANGED <<state, portInUse, socketOpen, console, interrupted, bindFailed,
                   nextId, backlog, requests, handling, wire, finished, rvars>>

\* a client connects to the listening socket and sends a request
Connect ==
    /\ socketOpen
    /\ nextId < MaxRequests
    /\ \E m \in Methods, p \in Paths :
          requests' = Append(requests, [method |-> m, path |-> p])
    /\ nextId' = nextId + 1
    /\ backlog' = Append(backlog, nextId + 1)
    /\ wire' = Append(wire, <<>>)
    /\ UNCHANGED <<spc, state, portInUse, socketOpen, console, browser, interrupted,
                   bindFailed, handling, finished, rvars>>

\* serve_forever takes the oldest connection and starts its handler
Accept ==
    /\ spc = "serve"
    /\ backlog # <<>>
    /\ CanAccept
    /\ handling' = handling \cup {Head(backlog)}
    /\ backlog' = Tail(backlog)
    /\ UNCHANGED <<spc, state, portInUse, socketOpen, console, browser, interrupted,
                   bindFailed, nextId, requests, wire, finished, rvars>>

HandleGET ==
    /\ spc = "serve"
    /\ \E r \in handling : \E t \in Times :
          /\ wire[r] = <<>>
          /\ requests[r].method = "GET"
          /\ wire' = [wire EXCEPT ![r] = do_GET(requests[r].path, t)]
    /\ UNCHANGED <<spc, state, portInUse, socketOpen, console, browser, interrupted,
                   bindFailed, nextId, backlog, requests, handling, finished, rvars>>

HandleOther ==
    /\ spc = "serve"
    /\ \E r \in handling : \E t \in Times :
          /\ wire[r] = <<>>
          /\ requests[r].method # "GET"
          /\ wire' = [wire EXCEPT ![r] = send_error_501(t)]
    /\ UNCHANGED <<spc, state, portInUse, socketOpen, console, browser, interrupted,
                   bindFailed, nextId, backlog, requests, handling, finished, rvars>>

\* the handler returned: the connection is shut down
Finish ==
    /\ spc = "serve"
    /\ \E r \in handling :
          /\ wire[r] # <<>>
          /\ handling' = handling \ {r}
          /\ finished' = finished \cup {r}
    /\ UNCHANGED <<spc, state, portInUse, socketOpen, console, browser, interrupted,
                   bindFailed, nextId, backlog, requests, wire, rvars>>

\* line 75 as  except BaseException: the interrupt is reported as a startup error
InterruptReported ==
    /\ spc \in {"bind", "announce", "serve"}
    /\ interrupted' = TRUE
    /\ socketOpen' = FALSE
    /\ console' = Append(console, ErrorLine("KeyboardInterrupt"))
    /\ state' = "terminated"
    /\ spc' = "exited"
    /\ handling' = {}
    /\ UNCHANGED <<portInUse, browser, bindFailed, nextId, backlog,
                   requests, wire, finished, rvars>>

\* KeyboardInterrupt is no Exception: line 75 does not catch it, the with
\* statement closes the socket and the process ends.  While webbrowser.open
\* runs, the bare except of line 70 drops it (Browser, outcome raised).
Interrupt ==
    /\ spc \in {"bind", "announce", "serve"}
    /\ interrupted' = TRUE
    /\ socketOpen' = FALSE
    /\ state' = "terminated"
    /\ spc' = "exited"
    /\ handling' = {}
    /\ UNCHANGED <<portInUse, console, browser, bindFailed, nextId, backlog,
                   requests, wire, finished, rvars>>

ServerInit == SInit /\ RInit

ServerNext ==
    \/ BindOK
    \/ BindFail
    \/ Announce
    \/ Browser
    \/ Connect
    \/ Accept
    \/ HandleGET
    \/ HandleOther
    \/ Finish
    \/ Interrupt

Spec == ServerInit /\ [][ServerNext]_vars

(***************************************************************************)
(* The redactor as a function of its input bytes (lines 24-34)             *)
(***************************************************************************)
RunRedactor(b) ==
    IF Utf8Valid(b)
    THEN Utf8Encode(replace_supabase_credentials(Utf8Decode(b)))
    ELSE b

(***************************************************************************)
(* Vocabulary of the properties, stated without the matching operators     *)
(***************************************************************************)
B64Chars == {"b64", "HDR", "RURL", "RKEY"}

\* n characters of the base64url alphabet
Segment(n) == [i \in 1..n |-> "b64"]

\* header.segment.segment with segments of n1 and n2 characters
Token(n1, n2) == <<"HDR", "dot">> \o Segment(n1) \o <<"dot">> \o Segment(n2)

\* t is the fixed header, a dot, and two non-empty base64url segments
\* separated by one dot
IsToken(t) ==
    /\ Len(t) >= 5
    /\ t[1] = "HDR"
    /\ t[2] = "dot"
    /\ \E d \in 4..(Len(t) - 1) :
          /\ t[d] = "dot"
          /\ \A j \in 3..Len(t) : j # d => t[j] \in B64Chars

\* s[i..k] is a quote, the URL, the same quote
QuotedUrl(s, i, k) ==
    /\ k = i + 2
    /\ k <= Len(s)
    /\ s[i] \in Quotes
    /\ s[i + 1] = "URL"
    /\ s[k] = s[i]

\* s[i..k] is a quote, a token, the same quote
QuotedToken(s, i, k) ==
    /\ i < k
    /\ k <= Len(s)
    /\ s[i] \in Quotes
    /\ s[k] = s[i]
    /\ IsToken(SubSeq(s, i + 1, k - 1))

HasQuotedSecret(s) ==
    \E i \in 1..Len(s) : \E k \in i..Len(s) :
        QuotedUrl(s, i, k) \/ QuotedToken(s, i, k)

\* a byte that makes the input invalid UTF-8: a lead byte with no
\* continuation byte after it, or a continuation byte with no lead before it
HasBadByte(b) ==
    \E i \in 1..Len(b) :
        \/ b[i] = "xC3" /\ (i = Len(b) \/ b[i + 1] # "xA9")
        \/ b[i] = "xA9" /\ (i = 1 \/ b[i - 1] # "xC3")

\* out is in with some of its quoted secrets replaced by the placeholder of
\* their kind between the same quotes, and everything else copied in order.
\* Two replaced spans may share a quote: the closing quote of one is the
\* opening quote of the next (the two substitutions are separate passes).
RECURSIVE OutsideKept(_, _)
OutsideKept(in, out) ==
    IF in = <<>> THEN out = <<>>
    ELSE \/ /\ out # <<>>
            /\ out[1] = in[1]
            /\ OutsideKept(Tail(in), Tail(out))
         \/ /\ Len(out) >= 3
            /\ out[1] = in[1]
            /\ out[3] = in[1]
            /\ \E k \in 3..Len(in) :
                  /\ \/ QuotedUrl(in, 1, k) /\ out[2] = "RURL"
                     \/ QuotedToken(in, 1, k) /\ out[2] = "RKEY"
                  /\ OutsideKept(Drop(in, k - 1), Drop(out, 2))

Done == rpc = "done"

\* C1: redacting the redactor's output returns that output unchanged
C1_Idempotent ==
    (Done /\ ~HasBadByte(content)) => RunRedactor(stdout[1]) = stdout[1]

\* C2: the output of the redactor contains no quoted URL and no quoted token
C2_NoSecretLeft ==
    (Done /\ ~HasBadByte(content)) => ~HasQuotedSecret(stdout[1])

\* the URL literal or a three-segment token
IsSecret(t) == t = <<"URL">> \/ IsToken(t)

Placeholder(t) == IF t = <<"URL">> THEN "RURL" ELSE "RKEY"

\* C3: a secret between two equal quotes becomes its placeholder between the
\* same quotes; a secret between different quotes, with one quote only or
\* with none is written unchanged
C3_ExactSubstitution ==
    Done =>
        LET n     == Len(content)
            inner == SubSeq(content, 2, n - 1)
        IN  /\ IsSecret(content) => stdout = <<content>>
            /\ (n >= 2 /\ content[1] \in Quotes /\ IsSecret(Tail(content)))
                   => stdout = <<content>>
            /\ (n >= 2 /\ content[n] \in Quotes /\ IsSecret(SubSeq(content, 1, n - 1)))
                   => stdout = <<content>>
            /\ (n >= 3 /\ content[1] \in Quotes /\ content[n] \in Quotes /\ IsSecret(inner))
                   => IF content[1] = content[n]
                      THEN stdout = << <<content[1], Placeholder(inner), content[1]>> >>
                      ELSE stdout = <<content>>

C3_Witness ==
    /\ Done
    /\ content = <<"bt">> \o Token(1, 2) \o <<"bt">>
    /\ stdout = << <<"bt", "RKEY", "bt">> >>

C3_WitnessMixedQuotes ==
    /\ Done
    /\ content = <<"sq", "URL", "dq">>
    /\ stdout = <<content>>

\* C4: input that is not valid UTF-8 is written unchanged; every run writes
\* exactly one output, when it ends, and no run stops before it ends
C4_DecodeFailurePassThrough ==
    /\ Done => Len(stdout) = 1
    /\ ~Done => stdout = <<>>
    /\ rpc = "except" <=> (HasBadByte(content) /\ ~Done /\ rpc # "read" /\ rpc # "decode")
    /\ (Done /\ HasBadByte(content)) => stdout = <<content>>

C4_Witness ==
    /\ Done
    /\ HasBadByte(content)
    /\ HasQuotedSecret(content)
    /\ stdout = <<content>>

\* C5: valid input with no quoted secret is written unchanged (the empty
\* input too), and the text outside the replaced spans is kept, in order
C5_NonMatchPassThrough ==
    (Done /\ ~HasBadByte(content)) =>
        /\ ~HasQuotedSecret(content) => stdout = <<content>>
        /\ OutsideKept(content, stdout[1])

C5_Witness ==
    /\ Done
    /\ content = <<"oth", "dq", "URL", "dq", "xC3", "xA9">>
    /\ stdout = << <<"oth", "dq", "RURL", "dq", "xC3", "xA9">> >>

C5_WitnessNoMatch ==
    /\ Done
    /\ content = <<"dq">> \o TokenBody \o <<"sq">>
    /\ stdout = <<content>>

(***************************************************************************)
(* Properties of the server                                                *)
(***************************************************************************)
\* header names are case-insensitive
Lower(name) ==
    CASE name \in {"Content-type", "Content-Type"} -> "content-type"
      [] name = "Access-Control-Allow-Origin" -> "access-control-allow-origin"
      [] OTHER -> name

HasHeader(w, name, value) ==
    \E i \in 1..Len(w) :
        /\ w[i].kind = "header"
        /\ Lower(w[i].name) = Lower(name)
        /\ w[i].value = value

Contains(seq, x) == \E i \in 1..Len(seq) : seq[i] = x

IsErrorLine(l) == l[1] = "Error starting server: "

ErrorReported == \E i \in 1..Len(console) : IsErrorLine(console[i])

Answered == {r \in 1..Len(wire) : wire[r] # <<>>}

C7_BindFailureFatal ==
    portInUse =>
        /\ state # "LISTENING"
        /\ ~socketOpen
        /\ browser = "none"
        /\ requests = <<>>
        /\ handling = {}
        /\ (spc # "bind" /\ ~interrupted) =>
              /\ bindFailed
              /\ state = "terminated"
              /\ spc = "exited"
              /\ Len(console) = 1
              /\ IsErrorLine(console[1])

C7_Witness ==
    /\ portInUse
    /\ bindFailed
    /\ state = "terminated"
    /\ ErrorReported

\* C8: the browser launch, opened or raised, prints nothing and is followed
\* by serve_forever with the socket listening; after a failed launch no error
\* is reported and the process ends only by an interrupt
C8_BrowserFailureSuppressed ==
    /\ [](browser = "raised" =>
            /\ ~ErrorReported
            /\ state = "terminated" => interrupted)
    /\ [][(spc = "browser" /\ spc' # "browser") =>
            /\ spc' = "serve"
            /\ state' = "LISTENING"
            /\ socketOpen'
            /\ console' = console]_vars

C8_Witness ==
    /\ browser = "raised"
    /\ spc = "serve"
    /\ state = "LISTENING"
    /\ finished # {}

\* C9: the state is NOT_LISTENING, LISTENING or terminated; LISTENING is
\* entered from NOT_LISTENING by a bind that succeeded; it is left only by an
\* interrupt, which closes the socket and ends the process; terminated is
\* never left; the error message is printed only when the bind fails
C9_Lifecycle ==
    /\ [](/\ state \in {"NOT_LISTENING", "LISTENING", "terminated"}
          /\ state = "LISTENING" <=> socketOpen
          /\ ErrorReported => bindFailed /\ state = "terminated")
    /\ [][/\ (state # "LISTENING" /\ state' = "LISTENING") =>
               state = "NOT_LISTENING" /\ ~portInUse /\ spc = "bind"
          /\ (state = "LISTENING" /\ state' # "LISTENING") =>
               interrupted' /\ ~socketOpen' /\ state' = "terminated"
          /\ state = "terminated" => state' = "terminated"
          /\ console' # console /\ IsErrorLine(console'[Len(console')]) =>
               state = "NOT_LISTENING" /\ state' = "terminated" /\ bindFailed']_vars

C9_Witness ==
    /\ state = "terminated"
    /\ interrupted
    /\ ~socketOpen
    /\ finished # {}
    /\ ~ErrorReported

\* C10: at most one handler runs; a handler runs only when every earlier
\* connection was handled to its end; the page sent to a request holds that
\* request's path and no other request's
C10_OneAtATime ==
    /\ Cardinality(handling) <= 1
    /\ \A r \in handling : \A r2 \in 1..(r - 1) : r2 \in finished
    /\ \A r \in Answered :
          requests[r].method = "GET" =>
             LET html == wire[r][Len(wire[r])].html
             IN  \A p \in Paths : Contains(html, p) <=> p = requests[r].path

C10_Witness ==
    /\ backlog # <<>>
    /\ \E r1 \in finished : \E r2 \in handling \cap Answered :
          /\ requests[r1].method = "GET"
          /\ requests[r2].method = "GET"
          /\ requests[r1].path # requests[r2].path

====
